---- MODULE Spec2Model ----
(***************************************************************************)
(* datman: status-gated fetch / verify / extract / patch pipeline          *)
(* (manager.py, downloader.py), its key-value status store (kv_store.py).  *)
(*                                                                         *)
(* Text is modelled as a sequence of one-character strings, so that        *)
(* formatting "key:value\n" and parsing it back are distinct computations. *)
(* Paths are sequences of directory names; a file is a directory path      *)
(* plus a name.                                                            *)
(***************************************************************************)
EXTENDS Integers, Sequences, FiniteSets, TLC

\* ------------------------------------------------------------------ bounds
MaxRuns == 2        \* manager constructions in one behaviour
MaxPatches == 2     \* longest patch list handed to a manager
MaxIdLen == 2       \* longest dataset identifier of the key-value round trip
MaxWrites == 2      \* writes of the STATUS file in one behaviour of the round trip
MaxSaves == 2       \* SimpleCache.save calls on one cache root
MaxIntKey == 1      \* largest integer key given to the cache
MaxKeyLen == 2      \* longest string key given to the cache

\* ------------------------------------------------------------------- text
NL == "\n"
COLON == ":"
SP == " "

Status_NONE == <<"N", "O", "N", "E">>
Status_OK == <<"O", "K">>

\* enum Status: construction from a value; any other value is a ValueError
Status(value) ==
    IF value = Status_OK THEN [ok |-> TRUE, member |-> "OK"]
    ELSE IF value = Status_NONE THEN [ok |-> TRUE, member |-> "NONE"]
    ELSE [ok |-> FALSE, member |-> "NONE"]

\* Status.value
StatusValue(member) == IF member = "OK" THEN Status_OK ELSE Status_NONE

IsSpace(c) == c = SP \/ c = NL

RECURSIVE LStrip(_)
LStrip(s) == IF s # <<>> /\ IsSpace(Head(s)) THEN LStrip(Tail(s)) ELSE s

RECURSIVE RStrip(_)
RStrip(s) ==
    IF s # <<>> /\ IsSpace(s[Len(s)]) THEN RStrip(SubSeq(s, 1, Len(s) - 1)) ELSE s

\* str.strip()
Strip(s) == RStrip(LStrip(s))

\* position of the first c in s, 0 when there is none
RECURSIVE FindFrom(_, _, _)
FindFrom(s, c, i) ==
    IF i > Len(s) THEN 0 ELSE IF s[i] = c THEN i ELSE FindFrom(s, c, i + 1)

Find(s, c) == FindFrom(s, c, 1)

\* iteration of a text file: the lines, each with its "\n" removed here (the
\* caller strips it anyway); a last line without "\n" is a line too
RECURSIVE FileLinesAcc(_, _, _)
FileLinesAcc(s, cur, acc) ==
    IF s = <<>> THEN (IF cur = <<>> THEN acc ELSE Append(acc, cur))
    ELSE IF Head(s) = NL THEN FileLinesAcc(Tail(s), <<>>, Append(acc, cur))
    ELSE FileLinesAcc(Tail(s), Append(cur, Head(s)), acc)

FileLines(s) == FileLinesAcc(s, <<>>, <<>>)

\* ---------------------------------------------------- insertion-ordered dict
\* a dict is a sequence of <<key, value>> pairs with distinct keys
DictHas(d, k) == \E i \in 1..Len(d) : d[i][1] = k

DictGet(d, k, default) ==
    IF DictHas(d, k) THEN d[CHOOSE i \in 1..Len(d) : d[i][1] = k][2] ELSE default

\* d[k] = v: an existing key keeps its position, a new key goes last
DictSet(d, k, v) ==
    IF DictHas(d, k)
    THEN [i \in 1..Len(d) |-> IF d[i][1] = k THEN <<k, v>> ELSE d[i]]
    ELSE Append(d, <<k, v>>)

\* ------------------------------------------------------------- kv_store.py
\* one line of save_kv: f"{key}:{value}\n"
FormatLine(k, v) == k \o <<COLON>> \o v \o <<NL>>

RECURSIVE save_kv(_)
save_kv(d) ==
    IF d = <<>> THEN <<>> ELSE FormatLine(d[1][1], d[1][2]) \o save_kv(Tail(d))

\* load_kv on the text of a file that could be opened: every non-blank
\* stripped line is split on its first ":"; a line without one is an error
RECURSIVE LoadLines(_, _)
LoadLines(lines, d) ==
    IF lines = <<>> THEN [ok |-> TRUE, data |-> d]
    ELSE LET line == Strip(Head(lines))
             p == Find(line, COLON)
         IN IF line = <<>> THEN LoadLines(Tail(lines), d)
            ELSE IF p = 0 THEN [ok |-> FALSE, data |-> <<>>]
            ELSE LoadLines(Tail(lines),
                           DictSet(d, SubSeq(line, 1, p - 1),
                                   SubSeq(line, p + 1, Len(line))))

load_kv(text) == LoadLines(FileLines(text), <<>>)

\* ------------------------------------------------------------- STATUS file
NoFile == [exists |-> FALSE, data |-> <<>>]
File(text) == [exists |-> TRUE, data |-> text]

\* a get_status that creates the STATUS file when there is none
get_status_Touches(sf, id) ==
    IF ~sf.exists THEN [ret |-> "NONE", file |-> File(<<>>)]
    ELSE IF ~load_kv(sf.data).ok THEN [ret |-> "NONE", file |-> NoFile]
    ELSE [ret |-> Status(DictGet(load_kv(sf.data).data, id, Status_NONE)).member,
          file |-> sf]

\* a get_status that leaves a file it cannot parse where it is
get_status_KeepsFile(sf, id) ==
    IF ~sf.exists \/ ~load_kv(sf.data).ok THEN [ret |-> "NONE", file |-> sf]
    ELSE [ret |-> Status(DictGet(load_kv(sf.data).data, id, Status_NONE)).member,
          file |-> sf]

\* DataManager.get_status: the member returned and the file left behind
get_status(sf, id) ==
    IF ~sf.exists THEN [ret |-> "NONE", file |-> sf]
    ELSE LET r == load_kv(sf.data) IN
         IF ~r.ok THEN [ret |-> "NONE", file |-> NoFile]
         ELSE [ret |-> Status(DictGet(r.data, id, Status_NONE)).member, file |-> sf]

\* DataManager.set_status: the text handed to save_kv
set_status(sf, id, member) ==
    LET r == IF sf.exists THEN load_kv(sf.data) ELSE [ok |-> TRUE, data |-> <<>>]
        statuses == IF r.ok THEN r.data ELSE <<>>
    IN save_kv(DictSet(statuses, id, StatusValue(member)))

\* ------------------------------------------------------------ downloader.py
\* a file's bytes: what archive they are, their digest, the files they expand to
NoBlob == [kind |-> "absent", dg |-> <<>>, tree |-> {}]
Exists(b) == b.kind # "absent"

\* checksum given to Remote: None, or text "algo:hex" or bare "hex"
None == [given |-> FALSE, text |-> <<>>]
Some(text) == [given |-> TRUE, text |-> text]

\* str.lower() on the letters used here
LowerChar(c) == CASE c = "A" -> "a" [] c = "B" -> "b" [] c = "S" -> "s" [] OTHER -> c

Lower(s) == [i \in 1..Len(s) |-> LowerChar(s[i])]

\* algorithm names, one letter each: "s" is sha256 (the default), "z" is a
\* name hashlib does not know
sha256 == <<"s">>
SupportedAlgorithms == {sha256}

\* checksum(): the hex digest of the bytes, or a ValueError
checksum(b, algorithm) ==
    IF Lower(algorithm) \notin SupportedAlgorithms
    THEN [raised |-> TRUE, hex |-> <<>>]
    ELSE [raised |-> FALSE, hex |-> b.dg]

\* verify_checksum(): ret is the boolean returned, hashed tells whether
\* checksum() was called, raised whether it raised
verify_checksum(b, expected_digest, skip) ==
    IF skip THEN [ret |-> TRUE, hashed |-> FALSE, raised |-> FALSE]
    ELSE IF ~expected_digest.given \/ expected_digest.text = <<>>
    THEN [ret |-> TRUE, hashed |-> FALSE, raised |-> FALSE]
    ELSE LET t == expected_digest.text
             p == Find(t, COLON)
             algo == IF p > 0 THEN Lower(SubSeq(t, 1, p - 1)) ELSE sha256
             digest == IF p > 0 THEN SubSeq(t, p + 1, Len(t)) ELSE t
             actual == checksum(b, algo)
         IN IF actual.raised THEN [ret |-> FALSE, hashed |-> TRUE, raised |-> TRUE]
            ELSE [ret |-> Lower(actual.hex) = Lower(digest),
                  hashed |-> TRUE, raised |-> FALSE]

\* a Downloader that takes skip_verify as the caller gave it
Downloader_skip_verify_AsGiven(cs, skip_verify) == skip_verify

\* Downloader.__init__: skip_verify is forced when no checksum is given
Downloader_skip_verify(cs, skip_verify) == IF ~cs.given THEN TRUE ELSE skip_verify

\* Path.suffixes of a file name given as its dot-separated parts
Suffixes(filename) == Tail(filename)

InSeq(x, s) == \E i \in 1..Len(s) : s[i] = x

\* detect_archive_type(): "unsupported" stands for the ValueError
detect_archive_type(filename) ==
    LET suffixes == Suffixes(filename) IN
    IF InSeq("zip", suffixes) THEN "zip"
    ELSE IF InSeq("tar", suffixes) \/ InSeq("tgz", suffixes) THEN "tar"
    ELSE "unsupported"

\* extract(file_path, extract_path, archive_type): the decoder used, or the
\* error raised; archive_type "none" is Python's None
extract(b, filename, archive_type) ==
    LET kind == IF archive_type = "none" THEN detect_archive_type(filename)
                ELSE archive_type
    IN IF kind \notin {"zip", "tar"} THEN [err |-> "config", kind |-> kind]
       ELSE IF ~Exists(b) THEN [err |-> "notfound", kind |-> kind]
       ELSE IF b.kind # kind THEN [err |-> "badarchive", kind |-> kind]
       ELSE [err |-> "none", kind |-> kind]

\* the archive_type Downloader.extract hands to extract()
Downloader_extract_archive_type(archive_type) == "none"

\* ------------------------------------------------------------------ paths
ROOT == <<"root">>

IsPrefix(p, q) == Len(p) <= Len(q) /\ SubSeq(q, 1, Len(p)) = p

VARIABLES
    remote,           \* the Remote descriptor every manager is given
    download_folder,  \* constructor argument, <<>> when not given
    extract_subpath,  \* constructor argument, <<>> when not given
    statusFile,       \* <root>/STATUS
    artifact,         \* dv.file_path
    tmp,              \* the ".zip.part" sibling of dv.file_path
    tree,             \* files under the extraction root, as absolute paths
    dataDirExists,    \* dv.data_path.exists()
    markers,          \* what the patches appended to a file of the data directory
    pc,               \* where the running call is
    entry,            \* the call that is running: "ctor" or "extract"
    mgr,              \* the manager under construction
    idx,              \* _apply_patches: index of the next patch
    err,              \* the exception that ended the last call, "none" if none
    startStatus,      \* get_status() at the start of the readiness check
    startArtifact,    \* the artifact at that moment
    log,              \* the effects of the running call so far, in order
    removed,          \* the files its rmtree deleted
    usedKind,         \* the decoder the last expansion used
    killed,           \* where the previous process was killed, if it was
    runs              \* constructions so far

VARIABLES
    index_kv,         \* <cache root>/index.kv
    backing,          \* the files of <cache root>/data: file name -> record
    inst,             \* the SimpleCache instance in use
    saved,            \* the save() calls made on the cache root, in order
    indexBefore,      \* the index of the instance when its last save() began
    lastLoad          \* the last load() call and what came of it

cacheVars == <<index_kv, backing, inst, saved, indexBefore, lastLoad>>

vars == <<remote, download_folder, extract_subpath, statusFile, artifact, tmp,
          tree, dataDirExists, markers, pc, entry, mgr, idx, err, startStatus,
          startArtifact, log, removed, usedKind, killed, runs, cacheVars>>

\* what no step of a manager changes: its descriptor and layout, and the
\* object cache, which is a component of its own
cfgVars == <<remote, download_folder, extract_subpath, cacheVars>>
fsVars == <<statusFile, artifact, tmp, tree, dataDirExists, markers>>
callVars == <<entry, mgr, idx, err, startStatus, startArtifact, log, removed,
              usedKind>>

\* DataManager.__init__ lines 39-41, 54
extract_path == ROOT \o extract_subpath
data_path == extract_path \o remote.root_folder
folder == IF download_folder # <<>> THEN download_folder ELSE ROOT

\* --------------------------------------------------------------- the inputs
Filenames == {<<"data", "zip">>, <<"data", "tar", "gz">>, <<"data", "tgz">>,
              <<"data", "bin">>}
ArchiveTypes == {"none", "zip", "tar"}
\* the digest the publisher announces is "aa"
Checksums == {None, Some(<<"a", "a">>), Some(<<"S", ":", "A", "a">>),
              Some(<<"z", ":", "a", "a">>)}
RootFolders == {<<>>, <<"ds">>}
ExtractSubpaths == {<<>>, <<"ex">>}
DownloadFolders == {<<>>, <<"dl">>}

\* the descriptor the examples of the repository use, and the variations of it:
\* of the file name and archive type, of the checksum, of the layout
BaseRemote == [url |-> "u", filename |-> <<"data", "zip">>, root_folder |-> <<"ds">>,
               checksum |-> Some(<<"S", ":", "A", "a">>), archive_type |-> "none"]

Config(r, d, e) == [remote |-> r, download_folder |-> d, extract_subpath |-> e]

Configs ==
    {Config([BaseRemote EXCEPT !.filename = f, !.archive_type = a], <<>>, <<>>) :
        f \in Filenames, a \in ArchiveTypes}
    \cup {Config([BaseRemote EXCEPT !.checksum = c], <<>>, <<>>) : c \in Checksums}
    \cup {Config([BaseRemote EXCEPT !.root_folder = r], d, e) :
            r \in RootFolders, d \in DownloadFolders, e \in ExtractSubpaths}

\* the identifier of the managers constructed; "b" is another dataset of the
\* same root, which has entries in its STATUS file
DatasetIds == {<<"a">>}

\* what the root may hold in its STATUS file before the first construction
InitialStatusFiles ==
    {NoFile,
     File(FormatLine(<<"a">>, <<"X">>) \o FormatLine(<<"b">>, Status_OK)),
     File(<<"b", ":", "O", "K", NL, "a", "O", "K", NL>>)}

\* the artifact file the download folder may hold before the first
\* construction: none, or a damaged one
InitialArtifacts == {NoBlob, [kind |-> "junk", dg |-> <<"b", "b">>, tree |-> {}]}

\* the format of the published archive: the one the descriptor declares,
\* by its archive_type or else by its file name ("data.bin" holds a zip)
PublishedKind ==
    IF remote.archive_type # "none" THEN remote.archive_type
    ELSE IF detect_archive_type(remote.filename) = "tar" THEN "tar" ELSE "zip"

\* the bytes the URL may serve: the published archive, which expands to one
\* file in the root folder, or bytes that are no archive and have another
\* digest (a damaged or truncated transfer)
Archive ==
    [kind |-> PublishedKind, dg |-> <<"a", "a">>,
     tree |-> {remote.root_folder \o <<"f1">>}]
Junk == [kind |-> "junk", dg |-> <<"b", "b">>, tree |-> {}]
ServedBlobs == {Archive, Junk}

NoPatches == [given |-> FALSE, list |-> <<>>]
PatchLists == {NoPatches} \cup {[given |-> TRUE, list |-> [i \in 1..n |-> i]] :
                                  n \in 0..MaxPatches}

Running == {"scratch", "ready", "dae", "download", "verify_tmp", "extract",
            "expand", "apply", "patch", "setok"}
Stopped == {"idle", "done", "failed"}

\* found is what the STATUS file said of the identifier when __init__ was entered
NoManager == [dataset_id |-> <<>>, from_scratch |-> FALSE, skip_verify |-> FALSE,
              patches |-> NoPatches, found |-> "NONE"]
NotKilled == [at |-> "none", id |-> <<>>, skip_verify |-> FALSE]
KilledAt(at) == [at |-> at, id |-> mgr.dataset_id, skip_verify |-> mgr.skip_verify]

\* where a kill fell: before the readiness check read the status ("ctor"),
\* between the temporary file and its rename ("verify_tmp"), or elsewhere in
\* the readiness check ("pipeline")
KillPoint(at) ==
    IF at \in {"scratch", "ready"} THEN "ctor"
    ELSE IF at = "verify_tmp" THEN "verify_tmp"
    ELSE "pipeline"

\* nothing of an earlier call is remembered
Forget ==
    /\ entry' = "none"
    /\ mgr' = NoManager
    /\ idx' = 1
    /\ err' = "none"
    /\ startStatus' = "NONE"
    /\ startArtifact' = NoBlob
    /\ log' = <<>>
    /\ removed' = {}
    /\ usedKind' = "none"

\* ------------------------------------------------------------------ cache.py
\* a key given to the cache: an int or a str
IntKey(n) == [isint |-> TRUE, n |-> n, s |-> <<>>]
StrKey(text) == [isint |-> FALSE, n |-> 0, s |-> text]

Digits == <<"0", "1", "2", "3", "4", "5", "6", "7", "8", "9">>

\* f"{n}" of a non-negative int
RECURSIVE IntText(_)
IntText(n) ==
    IF n < 10 THEN <<Digits[n + 1]>>
    ELSE IntText(n \div 10) \o <<Digits[(n % 10) + 1]>>

IsDigit(c) == \E d \in 1..10 : Digits[d] = c
DigitValue(c) == (CHOOSE d \in 1..10 : Digits[d] = c) - 1

RECURSIVE DigitsValue(_)
DigitsValue(t) ==
    IF t = <<>> THEN 0
    ELSE 10 * DigitsValue(SubSeq(t, 1, Len(t) - 1)) + DigitValue(t[Len(t)])

\* int(text) of load_kv line 14: blanks around the digits are accepted, anything
\* else is a ValueError
ParseInt(text) ==
    LET t == Strip(text) IN
    IF t # <<>> /\ \A i \in 1..Len(t) : IsDigit(t[i])
    THEN [ok |-> TRUE, value |-> DigitsValue(t)]
    ELSE [ok |-> FALSE, value |-> 0]

\* f"{key}"
KeyText(key) == IF key.isint THEN IntText(key.n) ELSE key.s

\* _save line 89: f'sample_{key}'
SampleName(n) == <<"sample_">> \o IntText(n)

\* IOBackend.extension and _add_extension_if_missing
EXT == ".npy"
add_extension_if_missing(name) ==
    IF name # <<>> /\ name[Len(name)] = EXT THEN name ELSE Append(name, EXT)

\* load_kv(file_path, True): as load_kv, with int(key) on every line
RECURSIVE LoadLinesInt(_, _)
LoadLinesInt(lines, d) ==
    IF lines = <<>> THEN [ok |-> TRUE, data |-> d]
    ELSE LET line == Strip(Head(lines))
             p == Find(line, COLON)
             k == ParseInt(SubSeq(line, 1, p - 1))
         IN IF line = <<>> THEN LoadLinesInt(Tail(lines), d)
            ELSE IF p = 0 \/ ~k.ok THEN [ok |-> FALSE, data |-> <<>>]
            ELSE LoadLinesInt(Tail(lines),
                              DictSet(d, k.value, SubSeq(line, p + 1, Len(line))))

load_kv_int(text) == LoadLinesInt(FileLines(text), <<>>)

\* save_kv on the index: its keys are ints
RECURSIVE save_kv_index(_)
save_kv_index(d) ==
    IF d = <<>> THEN <<>>
    ELSE FormatLine(IntText(d[1][1]), d[1][2]) \o save_kv_index(Tail(d))

\* a directory as a function from file names to contents
EmptyDir == [name \in {} |-> "none"]
WriteFile(dir, name, content) ==
    [f \in DOMAIN dir \cup {name} |-> IF f = name THEN content ELSE dir[f]]

\* the records saved, and the keys they are saved under
Records == {"r1", "r2"}
StringKeys == UNION {[1..n -> {"x", SP}] : n \in 1..MaxKeyLen}
CacheKeys == {IntKey(n) : n \in 0..MaxIntKey} \cup {StrKey(k) : k \in StringKeys}

\* saves counts the save() calls of the instance
NoCache == [open |-> FALSE, keep_in_memory |-> FALSE, index |-> <<>>,
            cache |-> <<>>, saves |-> 0]
NoKey == [isint |-> FALSE, n |-> 0, s |-> <<>>]
NoLoad == [called |-> FALSE, key |-> NoKey, ret |-> "none", backend_loads |-> 0]
Loaded(key, ret, n) == [called |-> TRUE, key |-> key, ret |-> ret, backend_loads |-> n]

CacheInit ==
    /\ index_kv = NoFile
    /\ backing = EmptyDir
    /\ inst = NoCache
    /\ saved = <<>>
    /\ indexBefore = <<>>
    /\ lastLoad = NoLoad

Init ==
    /\ \E c \in Configs :
        /\ remote = c.remote
        /\ download_folder = c.download_folder
        /\ extract_subpath = c.extract_subpath
    /\ statusFile \in InitialStatusFiles
    /\ artifact \in InitialArtifacts
    /\ \/ statusFile = NoFile /\ artifact = NoBlob
       \/ remote.filename = BaseRemote.filename
          /\ remote.archive_type = BaseRemote.archive_type
          /\ remote.checksum = BaseRemote.checksum
    /\ tmp = NoBlob
    /\ tree = {}
    /\ dataDirExists = FALSE
    /\ markers = <<>>
    /\ pc = "idle"
    /\ entry = "none"
    /\ mgr = NoManager
    /\ idx = 1
    /\ err = "none"
    /\ startStatus = "NONE"
    /\ startArtifact = NoBlob
    /\ log = <<>>
    /\ removed = {}
    /\ usedKind = "none"
    /\ killed = NotKilled
    /\ runs = 0
    /\ CacheInit

\* ------------------------------------------------------------- manager.py
\* shutil.rmtree(p) on the files the model tracks
TreeAfterRmtree(t, p) == {q \in t : ~IsPrefix(p, q)}
FileAfterRmtree(f, dir, p, gone) == IF IsPrefix(p, dir) THEN gone ELSE f

\* DataManager.__init__ up to the from_scratch test: root.mkdir, write_readme,
\* and the Downloader built at lines 53-62. The patches argument is drawn
\* where _apply_patches first reads it.
Construct(id, from_scratch, skip_verify) ==
    /\ pc \in Stopped
    /\ runs < MaxRuns
    /\ runs' = runs + 1
    /\ mgr' = [dataset_id |-> id, from_scratch |-> from_scratch,
               skip_verify |-> Downloader_skip_verify(remote.checksum, skip_verify),
               patches |-> NoPatches,
               found |-> get_status(statusFile, id).ret]
    /\ dataDirExists' = (dataDirExists \/ data_path = ROOT)
    /\ pc' = IF from_scratch THEN "scratch" ELSE "ready"
    /\ entry' = "ctor"
    /\ idx' = 1
    /\ err' = "none"
    /\ log' = <<>>
    /\ removed' = {}
    /\ startStatus' = "NONE"
    /\ startArtifact' = NoBlob
    /\ usedKind' = "none"
    /\ killed' = IF pc = "idle" THEN killed ELSE NotKilled
    /\ UNCHANGED <<cfgVars, statusFile, artifact, tmp, tree, markers>>

\* __init__ line 49: set_status(Status.NONE)
FromScratch ==
    /\ pc = "scratch"
    /\ statusFile' = File(set_status(statusFile, mgr.dataset_id, "NONE"))
    /\ pc' = "ready"
    /\ UNCHANGED <<cfgVars, artifact, tmp, tree, dataDirExists, markers, callVars,
                   killed, runs>>

\* a readiness check that goes on whatever the status is
AfterStatus_NoGate(status) == "dae"

\* _download_and_extract lines 70-71: return when the status is OK
AfterStatus(status) == IF status = "OK" THEN "done" ELSE "dae"

\* _download_and_extract lines 69-71
CheckStatus ==
    /\ pc = "ready"
    /\ LET r == get_status(statusFile, mgr.dataset_id) IN
        /\ statusFile' = r.file
        /\ startStatus' = r.ret
        /\ startArtifact' = artifact
        /\ log' = IF statusFile.exists /\ ~r.file.exists
                  THEN Append(log, "status_unlink") ELSE log
        /\ pc' = AfterStatus(r.ret)
    /\ UNCHANGED <<cfgVars, artifact, tmp, tree, dataDirExists, markers, entry, mgr,
                   idx, err, removed, usedKind, killed, runs>>

\* a Downloader that never checks what it is given
verify_Skipped(b) == verify_checksum(b, remote.checksum, TRUE)

\* Downloader.verify
verify(b) == verify_checksum(b, remote.checksum, mgr.skip_verify)

Hashed(v) == IF v.hashed THEN <<"digest">> ELSE <<>>

\* Downloader.download_and_extract lines 47-53
DownloadAndExtract ==
    /\ pc = "dae"
    /\ LET v == IF Exists(artifact) THEN verify(artifact)
                ELSE [ret |-> FALSE, hashed |-> FALSE, raised |-> FALSE]
       IN /\ log' = log \o Hashed(v)
          /\ IF v.raised THEN pc' = "failed" /\ err' = "config"
             ELSE /\ pc' = IF ~Exists(artifact) \/ ~v.ret THEN "download" ELSE "extract"
                  /\ err' = err
    /\ UNCHANGED <<cfgVars, fsVars, entry, mgr, idx, startStatus, startArtifact,
                   removed, usedKind, killed, runs>>

\* download() lines 134-148: the response is written to the temporary file
Download ==
    /\ pc = "download"
    /\ \E b \in ServedBlobs : tmp' = b
    /\ log' = Append(log, "download")
    /\ pc' = "verify_tmp"
    /\ UNCHANGED <<cfgVars, statusFile, artifact, tree, dataDirExists, markers,
                   entry, mgr, idx, err, startStatus, startArtifact, removed,
                   usedKind, killed, runs>>

\* download(): requests raises, before the file is opened or while streaming
DownloadFails ==
    /\ pc = "download"
    /\ tmp' \in {tmp, Junk}
    /\ log' = Append(log, "download")
    /\ pc' = "failed"
    /\ err' = "network"
    /\ UNCHANGED <<cfgVars, statusFile, artifact, tree, dataDirExists, markers,
                   entry, mgr, idx, startStatus, startArtifact, removed, usedKind,
                   killed, runs>>

\* a download() that leaves the rejected temporary file where it is
TmpAfterMismatch_Kept == tmp

\* download() line 152: tmp_path.unlink()
TmpAfterMismatch == NoBlob

\* download() lines 150-155
VerifyAndRename ==
    /\ pc = "verify_tmp"
    /\ LET v == verify(tmp) IN
        /\ log' = log \o Hashed(v)
                      \o (IF ~v.raised /\ v.ret THEN <<"rename">> ELSE <<>>)
        /\ IF v.raised
           THEN pc' = "failed" /\ err' = "config" /\ UNCHANGED <<artifact, tmp>>
           ELSE IF ~v.ret
           THEN pc' = "failed" /\ err' = "integrity" /\ tmp' = TmpAfterMismatch
                /\ UNCHANGED artifact
           ELSE pc' = "extract" /\ err' = err /\ artifact' = tmp /\ tmp' = NoBlob
    /\ UNCHANGED <<cfgVars, statusFile, tree, dataDirExists, markers, entry, mgr,
                   idx, startStatus, startArtifact, removed, usedKind, killed, runs>>

\* the files of the data directory, by their paths
DataDirFiles ==
    {q \in tree : IsPrefix(data_path, q)}
    \cup (IF statusFile.exists /\ IsPrefix(data_path, ROOT)
          THEN {ROOT \o <<"STATUS">>} ELSE {})
    \cup (IF Exists(artifact) /\ IsPrefix(data_path, folder)
          THEN {folder \o <<"artifact">>} ELSE {})
    \cup (IF Exists(tmp) /\ IsPrefix(data_path, folder)
          THEN {folder \o <<"artifact.part">>} ELSE {})
    \cup (IF markers # <<>> THEN {data_path \o <<"markers">>} ELSE {})

\* a Downloader.extract that deletes before it looks for the artifact, and one
\* that expands over what is there
RemovesDataDir_Unchecked == dataDirExists
RemovesDataDir_Never == FALSE

\* Downloader.extract lines 68-76: whether shutil.rmtree(data_path) runs; the
\* check of the artifact comes first and raises
RemovesDataDir == Exists(artifact) /\ dataDirExists

\* Downloader.extract lines 68-78: existence check, rmtree, mkdir
ExtractClean ==
    /\ pc = "extract"
    /\ IF RemovesDataDir
       THEN /\ tree' = TreeAfterRmtree(tree, data_path)
            /\ markers' = <<>>
            /\ statusFile' = FileAfterRmtree(statusFile, ROOT, data_path, NoFile)
            /\ artifact' = FileAfterRmtree(artifact, folder, data_path, NoBlob)
            /\ tmp' = FileAfterRmtree(tmp, folder, data_path, NoBlob)
            /\ log' = Append(log, "rmtree")
            /\ removed' = DataDirFiles
       ELSE UNCHANGED <<tree, markers, statusFile, artifact, tmp, log, removed>>
    /\ IF ~Exists(artifact)
       THEN /\ pc' = "failed"
            /\ err' = "missing"
            /\ dataDirExists' = (dataDirExists /\ ~RemovesDataDir)
       ELSE /\ pc' = "expand"
            /\ err' = err
            /\ dataDirExists' = (data_path = extract_path)
    /\ UNCHANGED <<cfgVars, entry, mgr, idx, startStatus, startArtifact, usedKind,
                   killed, runs>>

\* Downloader.extract line 80: extract(self.file_path, self.extract_path)
Expand ==
    /\ pc = "expand"
    /\ LET r == extract(artifact, remote.filename,
                        Downloader_extract_archive_type(remote.archive_type))
       IN /\ usedKind' = r.kind
          /\ IF r.err = "none"
             THEN /\ tree' = tree \cup {extract_path \o e : e \in artifact.tree}
                  /\ dataDirExists' = TRUE
                  /\ log' = Append(log, "extract")
                  /\ pc' = IF entry = "ctor" THEN "apply" ELSE "done"
                  /\ err' = err
             ELSE /\ pc' = "failed"
                  /\ err' = r.err
                  /\ UNCHANGED <<tree, dataDirExists, log>>
    /\ UNCHANGED <<cfgVars, statusFile, artifact, tmp, markers, entry, mgr, idx,
                   startStatus, startArtifact, removed, killed, runs>>

\* _apply_patches lines 83-87: self.patches is read
ApplyPatches(patches) ==
    /\ pc = "apply"
    /\ mgr' = [mgr EXCEPT !.patches = patches]
    /\ idx' = 1
    /\ pc' = IF patches.given THEN "patch" ELSE "setok"
    /\ UNCHANGED <<cfgVars, fsVars, entry, err, startStatus, startArtifact, log,
                   removed, usedKind, killed, runs>>

\* _apply_patches line 88: the loop is over
PatchesDone ==
    /\ pc = "patch"
    /\ idx > Len(mgr.patches.list)
    /\ pc' = "setok"
    /\ UNCHANGED <<cfgVars, fsVars, callVars, killed, runs>>

\* a manager that hands its patches the extraction root
PatchArgument_ExtractPath == extract_path

\* _apply_patches line 91: patch_func(str(self.data_path))
PatchArgument == data_path

\* what a patch leaves in its marker file: itself and the path it was given
PatchCall(patch) == [patch |-> patch, arg |-> PatchArgument]

\* the patches that left their marker, in the order of the file
Applied(ms) == [k \in 1..Len(ms) |-> ms[k].patch]

\* _apply_patches line 91: the patch returns, having appended its marker
PatchReturns ==
    /\ pc = "patch"
    /\ idx <= Len(mgr.patches.list)
    /\ markers' = Append(markers, PatchCall(mgr.patches.list[idx]))
    /\ idx' = idx + 1
    /\ log' = Append(log, "patch")
    /\ UNCHANGED <<cfgVars, statusFile, artifact, tmp, tree, dataDirExists, pc,
                   entry, mgr, err, startStatus, startArtifact, removed, usedKind,
                   killed, runs>>

\* a manager that swallows what a patch raises and marks the dataset ready
AfterPatchRaised_Swallowed == "setok"

\* _apply_patches line 91, _download_and_extract line 75: nothing catches
\* what a patch raises
AfterPatchRaised == "failed"

\* _apply_patches line 91: the patch raises
PatchRaises ==
    /\ pc = "patch"
    /\ idx <= Len(mgr.patches.list)
    /\ log' = Append(log, "patch")
    /\ pc' = AfterPatchRaised
    /\ err' = "patch"
    /\ UNCHANGED <<cfgVars, fsVars, entry, mgr, idx, startStatus, startArtifact,
                   removed, usedKind, killed, runs>>

\* _apply_patches lines 89-90: the list item is not callable
PatchNotCallable ==
    /\ pc = "patch"
    /\ idx <= Len(mgr.patches.list)
    /\ pc' = "failed"
    /\ err' = "notcallable"
    /\ UNCHANGED <<cfgVars, fsVars, entry, mgr, idx, startStatus, startArtifact, log,
                   removed, usedKind, killed, runs>>

\* _download_and_extract line 77: set_status(Status.OK)
SetOK ==
    /\ pc = "setok"
    /\ statusFile' = File(set_status(statusFile, mgr.dataset_id, "OK"))
    /\ log' = Append(log, "status_write")
    /\ pc' = "done"
    /\ UNCHANGED <<cfgVars, artifact, tmp, tree, dataDirExists, markers, entry, mgr,
                   idx, err, startStatus, startArtifact, removed, usedKind, killed,
                   runs>>

\* -------------------------------------------------------- the process is killed
Kill ==
    /\ pc \in Running
    /\ entry = "ctor"
    /\ killed' = KilledAt(KillPoint(pc))
    /\ pc' = "idle"
    /\ Forget
    /\ UNCHANGED <<cfgVars, fsVars, runs>>

\* save_kv opens with "w" (the file is emptied) and writes: a kill leaves any
\* prefix of the text
KillDuringSave ==
    /\ pc \in {"scratch", "setok"}
    /\ LET text == set_status(statusFile, mgr.dataset_id,
                              IF pc = "setok" THEN "OK" ELSE "NONE")
       IN \E n \in 0..Len(text) : statusFile' = File(SubSeq(text, 1, n))
    /\ killed' = KilledAt(IF pc = "setok" THEN "save" ELSE "ctor")
    /\ pc' = "idle"
    /\ Forget
    /\ UNCHANGED <<cfgVars, artifact, tmp, tree, dataDirExists, markers, runs>>

\* download(): a kill while the response is streamed leaves a part of it
KillDuringDownload ==
    /\ pc = "download"
    /\ tmp' = Junk
    /\ killed' = KilledAt("pipeline")
    /\ pc' = "idle"
    /\ Forget
    /\ UNCHANGED <<cfgVars, statusFile, artifact, tree, dataDirExists, markers, runs>>

\* extract(): a kill while the archive is expanded leaves some of its files
KillDuringExpand ==
    /\ pc = "expand"
    /\ entry = "ctor"
    /\ extract(artifact, remote.filename,
               Downloader_extract_archive_type(remote.archive_type)).err = "none"
    /\ tree' = tree \cup {extract_path \o e : e \in artifact.tree}
    /\ dataDirExists' = TRUE
    /\ killed' = KilledAt("pipeline")
    /\ pc' = "idle"
    /\ Forget
    /\ UNCHANGED <<cfgVars, statusFile, artifact, tmp, markers, runs>>

\* ------------------------------------------- what happens between two calls
\* Downloader.extract() called on its own
CallExtract ==
    /\ pc \in Stopped
    /\ runs > 0
    /\ pc' = "extract"
    /\ Forget
    /\ killed' = NotKilled
    /\ UNCHANGED <<cfgVars, fsVars, runs>>

\* the user deletes the data directory, or drops a file of their own into it
UserDeletesDataDir ==
    /\ pc \in Stopped
    /\ dataDirExists
    /\ tree' = TreeAfterRmtree(tree, data_path)
    /\ markers' = <<>>
    /\ statusFile' = FileAfterRmtree(statusFile, ROOT, data_path, NoFile)
    /\ artifact' = FileAfterRmtree(artifact, folder, data_path, NoBlob)
    /\ tmp' = FileAfterRmtree(tmp, folder, data_path, NoBlob)
    /\ dataDirExists' = FALSE
    /\ pc' = "idle"
    /\ Forget
    /\ killed' = NotKilled
    /\ UNCHANGED <<cfgVars, runs>>

UserAddsFile ==
    /\ pc \in Stopped
    /\ data_path \o <<"mine">> \notin tree
    /\ tree' = tree \cup {data_path \o <<"mine">>}
    /\ dataDirExists' = TRUE
    /\ pc' = "idle"
    /\ Forget
    /\ killed' = NotKilled
    /\ UNCHANGED <<cfgVars, statusFile, artifact, tmp, markers, runs>>

Next ==
    \/ \E id \in DatasetIds, fs \in BOOLEAN, sv \in BOOLEAN : Construct(id, fs, sv)
    \/ FromScratch
    \/ CheckStatus
    \/ DownloadAndExtract
    \/ Download
    \/ DownloadFails
    \/ VerifyAndRename
    \/ ExtractClean
    \/ Expand
    \/ \E ps \in PatchLists : ApplyPatches(ps)
    \/ PatchesDone
    \/ PatchReturns
    \/ PatchRaises
    \/ PatchNotCallable
    \/ SetOK
    \/ Kill
    \/ KillDuringSave
    \/ KillDuringDownload
    \/ KillDuringExpand
    \/ CallExtract
    \/ UserDeletesDataDir
    \/ UserAddsFile

Spec == Init /\ [][Next]_vars

\* ------------------------------------------ the status store, called directly
\* get_status and set_status of managers of any identifier, on one root whose
\* STATUS file something else may damage; log is here the list of what
\* changed the file
KVChars == {"a", COLON, SP}
KVIds == UNION {[1..n -> KVChars] : n \in 1..MaxIdLen}

Wrote(op, id, member) == [op |-> op, id |-> id, member |-> member]

\* a STATUS file with a line without ":", and one with a value that is no
\* member of Status
DamagedFiles ==
    {File(<<"b", ":", "O", "K", NL, "a", "O", "K", NL>>),
     File(FormatLine(<<"a">>, <<"X">>) \o FormatLine(<<"b">>, Status_OK))}

InitKV ==
    /\ remote = BaseRemote
    /\ download_folder = <<>>
    /\ extract_subpath = <<>>
    /\ statusFile = NoFile
    /\ artifact = NoBlob
    /\ tmp = NoBlob
    /\ tree = {}
    /\ dataDirExists = FALSE
    /\ markers = <<>>
    /\ pc = "idle"
    /\ entry = "none"
    /\ mgr = NoManager
    /\ idx = 1
    /\ err = "none"
    /\ startStatus = "NONE"
    /\ startArtifact = NoBlob
    /\ log = <<>>
    /\ removed = {}
    /\ usedKind = "none"
    /\ killed = NotKilled
    /\ runs = 0
    /\ CacheInit

kvUnchanged == <<cfgVars, artifact, tmp, tree, dataDirExists, markers, idx, err,
                 startArtifact, removed, usedKind, killed>>

\* DataManager.set_status(status) of the manager of id
CallSetStatus(id, member) ==
    /\ runs < MaxWrites
    /\ runs' = runs + 1
    /\ statusFile' = File(set_status(statusFile, id, member))
    /\ mgr' = [NoManager EXCEPT !.dataset_id = id]
    /\ entry' = "set_status"
    /\ startStatus' = "NONE"
    /\ log' = Append(log, Wrote("set_status", id, member))
    /\ pc' = "done"
    /\ UNCHANGED kvUnchanged

\* DataManager.get_status() of the manager of id; startStatus is what it returns
CallGetStatus(id) ==
    /\ LET r == get_status(statusFile, id) IN
        /\ statusFile' = r.file
        /\ startStatus' = r.ret
        /\ log' = IF statusFile.exists /\ ~r.file.exists
                  THEN Append(log, Wrote("unlink", id, "NONE")) ELSE log
    /\ mgr' = [NoManager EXCEPT !.dataset_id = id]
    /\ entry' = "get_status"
    /\ pc' = "done"
    /\ UNCHANGED <<kvUnchanged, runs>>

\* the STATUS file is overwritten by something that is not set_status
DamageStatusFile ==
    /\ runs < MaxWrites
    /\ runs' = runs + 1
    /\ \E f \in DamagedFiles : statusFile' = f
    /\ mgr' = NoManager
    /\ entry' = "none"
    /\ startStatus' = "NONE"
    /\ log' = Append(log, Wrote("damage", <<>>, "NONE"))
    /\ pc' = "idle"
    /\ UNCHANGED kvUnchanged

NextKV ==
    \/ \E id \in KVIds, member \in {"NONE", "OK"} : CallSetStatus(id, member)
    \/ \E id \in KVIds : CallGetStatus(id)
    \/ DamageStatusFile

SpecKV == InitKV /\ [][NextKV]_vars

\* ------------------------------------------------- the object cache, cache.py
\* everything of the managers but err, which here holds what a cache call raised
managerVars == <<remote, download_folder, extract_subpath, fsVars, pc, entry, mgr,
                 idx, startStatus, startArtifact, log, removed, usedKind, killed,
                 runs>>

\* SimpleCache.__init__ lines 62-74: a new instance on the cache root
SimpleCache(keep_in_memory) ==
    /\ LET r == IF index_kv.exists THEN load_kv_int(index_kv.data)
                ELSE [ok |-> TRUE, data |-> <<>>]
       IN IF r.ok
          THEN /\ inst' = [open |-> TRUE, keep_in_memory |-> keep_in_memory,
                           index |-> r.data, cache |-> <<>>, saves |-> 0]
               /\ err' = "none"
          ELSE /\ inst' = NoCache
               /\ err' = "RuntimeError"
    /\ lastLoad' = NoLoad
    /\ UNCHANGED <<index_kv, backing, saved, indexBefore, managerVars>>

\* _save line 93: self.data_path / f"{key}"
SaveName(key) == KeyText(key)

\* _save lines 88-91: the index after the key is recorded
IndexAfterSave(index, key) ==
    IF key.isint THEN DictSet(index, key.n, SampleName(key.n))
    ELSE DictSet(index, Len(index), key.s)

\* save_index line 105
IndexFileAfterSave(index) == File(save_kv_index(index))

\* SimpleCache.save lines 99-102: _save, then save_index
Save(key, data) ==
    /\ inst.open
    /\ Len(saved) < MaxSaves
    /\ LET index1 == IndexAfterSave(inst.index, key) IN
        /\ inst' = [inst EXCEPT !.index = index1,
                                !.cache = IF inst.keep_in_memory
                                          THEN DictSet(inst.cache, key, data)
                                          ELSE inst.cache,
                                !.saves = inst.saves + 1]
        /\ backing' = WriteFile(backing, add_extension_if_missing(SaveName(key)), data)
        /\ index_kv' = IndexFileAfterSave(index1)
    /\ saved' = Append(saved, [key |-> key, data |-> data])
    /\ indexBefore' = inst.index
    /\ lastLoad' = NoLoad
    /\ err' = "none"
    /\ UNCHANGED managerVars

\* an instance that reads the disk also when the mirror has the key
MirrorHas_Ignored(cache, key) == FALSE

\* load line 111: key in self.cache
MirrorHas(cache, key) == DictHas(cache, key)

\* SimpleCache.load lines 107-119
Load(key) ==
    /\ inst.open
    /\ LET known == ~key.isint \/ DictHas(inst.index, key.n)
           k == IF key.isint THEN DictGet(inst.index, key.n, <<>>) ELSE key.s
           name == add_extension_if_missing(k)
       IN IF ~known
          THEN /\ err' = "KeyError"
               /\ lastLoad' = Loaded(key, "none", 0)
               /\ inst' = inst
          ELSE IF MirrorHas(inst.cache, StrKey(k))
          THEN /\ err' = "none"
               /\ lastLoad' = Loaded(key, DictGet(inst.cache, StrKey(k), "none"), 0)
               /\ inst' = inst
          ELSE IF name \notin DOMAIN backing
          THEN /\ err' = "FileNotFoundError"
               /\ lastLoad' = Loaded(key, "none", 1)
               /\ inst' = inst
          ELSE /\ err' = "none"
               /\ lastLoad' = Loaded(key, backing[name], 1)
               /\ inst' = [inst EXCEPT !.cache = IF inst.keep_in_memory
                                                 THEN DictSet(inst.cache, StrKey(k),
                                                              backing[name])
                                                 ELSE inst.cache]
    /\ UNCHANGED <<index_kv, backing, saved, indexBefore, managerVars>>

NextCache ==
    \/ \E keep_in_memory \in BOOLEAN : SimpleCache(keep_in_memory)
    \/ \E key \in CacheKeys, data \in Records : Save(key, data)
    \/ \E key \in CacheKeys : Load(key)

SpecCache == InitKV /\ [][NextCache]_vars
\* ================================================================ claims
Count(l, x) == Cardinality({i \in 1..Len(l) : l[i] = x})
InLog(x) == InSeq(x, log)

\* what a manager of identifier id reads as its status in STATUS file sf
PersistedIn(sf, id) == get_status(sf, id).ret
Persisted(id) == PersistedIn(statusFile, id)

\* C1: a readiness check that reads status OK returns at once: no download,
\* no digest, no directory deletion, no extraction, no patch call and no
\* write or removal of the STATUS file, whether or not the data directory
\* exists.
C1_OkStatusDoesNothing ==
    (entry = "ctor" /\ startStatus = "OK") =>
        /\ pc = "done"
        /\ log = <<>>
        /\ removed = {}
        /\ artifact = startArtifact
        /\ Persisted(mgr.dataset_id) = "OK"

C1_Witness ==
    /\ entry = "ctor"
    /\ pc = "done"
    /\ startStatus = "OK"
    /\ ~dataDirExists
    /\ runs = 2

\* C2: the status of the identifier becomes OK only by the write that ends a
\* readiness check in which the archive was expanded and every patch of the
\* list returned; a readiness check that ends with an exception leaves the
\* persisted status as it read it at its start, and has written nothing to
\* the STATUS file.
C2_OkOnlyAfterAll ==
    [][/\ \A id \in DatasetIds :
            (PersistedIn(statusFile, id) # "OK" /\ PersistedIn(statusFile', id) = "OK") =>
                /\ pc = "setok"
                /\ mgr.dataset_id = id
                /\ InSeq("extract", log)
                /\ mgr.patches.given =>
                      /\ idx = Len(mgr.patches.list) + 1
                      /\ Count(log, "patch") = Len(mgr.patches.list)
                      /\ Applied(markers) = mgr.patches.list
       /\ (pc' = "failed" /\ entry' = "ctor") =>
            /\ PersistedIn(statusFile', mgr'.dataset_id) = startStatus'
            /\ ~InSeq("status_write", log')]_vars

C2_Witness ==
    /\ pc = "failed"
    /\ entry = "ctor"
    /\ err = "patch"
    /\ idx = 2
    /\ Persisted(mgr.dataset_id) = "NONE"

\* the running construction follows, with nothing in between, a process of
\* the same identifier that was killed inside its readiness check, after it
\* had read a status other than OK
AfterInterruptedCheck ==
    /\ entry = "ctor"
    /\ killed.at \in {"pipeline", "verify_tmp", "save"}
    /\ killed.id = mgr.dataset_id
    /\ pc \notin {"scratch", "ready"}

\* the exceptions a bad remote or a bad patch cause
RemoteOrPatchErrors == {"network", "integrity", "badarchive", "patch", "notcallable"}

\* a descriptor and a layout with which an undisturbed construction succeeds:
\* the archive type is the one the file name shows, the digest algorithm is
\* known, and the data directory holds neither the artifact nor the STATUS file
PlainConfig ==
    /\ remote.archive_type = "none"
    /\ detect_archive_type(remote.filename) # "unsupported"
    /\ ~verify_checksum(Archive, remote.checksum, FALSE).raised
    /\ ~IsPrefix(data_path, folder)
    /\ ~IsPrefix(data_path, ROOT)

\* C3: the construction that follows a readiness check killed before it
\* completed (here with a descriptor and layout that work when undisturbed)
\* reads status NONE, runs download_and_extract, expansion and every patch
\* again, and ends with status OK unless the remote or a patch fails.
C3_InterruptedIsNeverStarted ==
    (AfterInterruptedCheck /\ PlainConfig) =>
        /\ startStatus = "NONE"
        /\ pc = "done" =>
              /\ InLog("extract")
              /\ InLog("status_write")
              /\ Persisted(mgr.dataset_id) = "OK"
        /\ pc = "failed" => err \in RemoteOrPatchErrors

\* what verify_checksum says of the temporary file under the manager's setting
TmpPasses == LET v == verify_checksum(tmp, remote.checksum, mgr.skip_verify)
             IN v.ret /\ ~v.raised

LastKilledBeforeRename ==
    pc = "dae" /\ killed.at = "verify_tmp" /\ killed.id = mgr.dataset_id

\* C4 (as the code has it): the artifact file gets new bytes only by the rename
\* of a temporary file that passed verification (or verification is skipped);
\* a kill between the temporary file and the rename leaves the artifact file
\* as the readiness check found it; and the next download_and_extract made
\* with the same skip_verify setting judges the artifact as the killed one
\* did and downloads again.
C4_RenameAfterVerification ==
    [][ /\ (artifact' # artifact /\ Exists(artifact')) =>
              (pc = "verify_tmp" /\ artifact' = tmp /\ TmpPasses)
        /\ (pc = "verify_tmp" /\ pc' = "idle") =>
              (artifact' = artifact /\ artifact = startArtifact)
        /\ (LastKilledBeforeRename /\ killed.skip_verify = mgr.skip_verify
              /\ pc' # "idle") => pc' = "download"
      ]_vars

\* a damaged artifact that was there is judged again and replaced
C4_Witness ==
    /\ pc = "extract" /\ killed.at = "verify_tmp" /\ InLog("rename")
    /\ Exists(startArtifact) /\ artifact # startArtifact

\* C4 as stated: after a kill between the temporary file and the rename the
\* artifact file is unchanged and the next download_and_extract, whatever its
\* setting, does not take the artifact as present and valid and downloads.
C4_NextRunDownloadsAgain ==
    [][ /\ (artifact' # artifact /\ Exists(artifact')) =>
              (pc = "verify_tmp" /\ artifact' = tmp /\ TmpPasses)
        /\ (pc = "verify_tmp" /\ pc' = "idle") =>
              (artifact' = artifact /\ artifact = startArtifact)
        /\ (LastKilledBeforeRename /\ pc' # "idle") => pc' = "download"
      ]_vars

\* C5: when the freshly downloaded temporary file fails verification, the
\* temporary file is deleted, the call ends with the integrity error, the
\* artifact file is as before, there was one download, no rename, no deletion
\* of the data directory, no expansion, and the status is not written.
C5_IntegrityFailure ==
    (pc = "failed" /\ err = "integrity") =>
        /\ ~Exists(tmp)
        /\ artifact = startArtifact
        /\ Count(log, "download") = 1
        /\ ~InLog("rename")
        /\ ~InLog("rmtree") /\ removed = {}
        /\ ~InLog("extract") /\ usedKind = "none"
        /\ ~InLog("status_write")
        /\ Persisted(mgr.dataset_id) = startStatus
        /\ startStatus # "OK"

C5_Witness ==
    /\ pc = "failed" /\ err = "integrity" /\ Exists(artifact)
    /\ log = <<"digest", "download", "digest">>

\* C6: Downloader.extract without an artifact file ends with the
\* missing-artifact error and leaves the data directory, everything in it
\* and every other file as they were.
C6_MissingArtifactDeletesNothing ==
    [][ (pc = "extract" /\ ~Exists(artifact) /\ pc' # "idle") =>
            /\ pc' = "failed" /\ err' = "missing"
            /\ tree' = tree /\ markers' = markers
            /\ dataDirExists' = dataDirExists
            /\ statusFile' = statusFile /\ tmp' = tmp
            /\ ~InSeq("rmtree", log') /\ removed' = {}
      ]_vars

C6_Witness ==
    /\ pc = "failed" /\ err = "missing"
    /\ dataDirExists /\ data_path \o <<"mine">> \in tree

\* the call has just expanded the archive
JustExtracted == InLog("extract") /\ (pc = "apply" \/ (pc = "done" /\ entry = "none"))

\* C7: after a successful extraction the data directory holds exactly the
\* files of the archive, whatever it held before.
C7_OnlyArchiveContents ==
    JustExtracted => DataDirFiles = {extract_path \o e : e \in artifact.tree}

C7_Witness ==
    /\ JustExtracted
    /\ data_path \o <<"mine">> \in removed
    /\ data_path \o <<"markers">> \in removed

\* C8: when the descriptor carries an archive_type, the expansion uses the
\* decoder of that type, whatever the file name is.
C8_ExplicitTypeIsUsed ==
    (usedKind # "none" /\ remote.archive_type # "none") =>
        usedKind = remote.archive_type

\* ------------------------------------------------- claims on the status store
OnlySetStatusWrote == \A i \in 1..Len(log) : log[i].op = "set_status"

NeverWritten(id) == \A i \in 1..Len(log) : log[i].id # id

\* C9: on a root without a STATUS file, for every identifier, set_status(OK)
\* followed by get_status() returns OK, and get_status() of an identifier
\* that was never written returns NONE, whatever other identifiers were
\* written.
C9_SetThenGet ==
    (entry = "get_status" /\ OnlySetStatusWrote) =>
        /\ log = <<Wrote("set_status", mgr.dataset_id, "OK")>> => startStatus = "OK"
        /\ NeverWritten(mgr.dataset_id) => startStatus = "NONE"

\* the raw lines of a text, for looking an entry up as it was written
HasLine(text, id, value) ==
    \E i \in 1..Len(FileLines(text)) : FileLines(text)[i] = id \o <<COLON>> \o value

\* an identifier that a line of the file can carry as it is
PlainId(id) == id # <<>> /\ Strip(id) = id /\ Find(id, COLON) = 0 /\ Find(id, NL) = 0

HoldsUnknownValue(text, id) ==
    LET r == load_kv(text) IN
    /\ r.ok
    /\ DictHas(r.data, id)
    /\ DictGet(r.data, id, Status_NONE) \notin {Status_NONE, Status_OK}

LastWrite(l) == l[Len(l)]

\* C10: get_status on a STATUS file that cannot be parsed returns NONE,
\* raises nothing and deletes the file; on a file that holds an unknown value
\* for the identifier it returns NONE, raises nothing and keeps the file; and
\* the set_status that follows the deletion raises nothing and writes a file
\* that parses and holds this identifier's line (which reads back for an
\* identifier without ":" and surrounding blanks).
C10_DamagedFileReadsNone ==
    [][ /\ (entry' = "get_status" /\ statusFile.exists /\ ~load_kv(statusFile.data).ok) =>
              (startStatus' = "NONE" /\ err' = "none" /\ ~statusFile'.exists)
        /\ (entry' = "get_status" /\ statusFile.exists
              /\ HoldsUnknownValue(statusFile.data, mgr'.dataset_id)) =>
              (startStatus' = "NONE" /\ err' = "none" /\ statusFile' = statusFile)
        /\ (entry = "get_status" /\ log # <<>> /\ LastWrite(log).op = "unlink"
              /\ entry' = "set_status" /\ mgr'.dataset_id = mgr.dataset_id) =>
              /\ err' = "none"
              /\ statusFile'.exists
              /\ load_kv(statusFile'.data).ok
              /\ HasLine(statusFile'.data, mgr'.dataset_id,
                         StatusValue(LastWrite(log').member))
              /\ PlainId(mgr'.dataset_id) =>
                    get_status(statusFile', mgr'.dataset_id).ret = LastWrite(log').member
      ]_vars

C10_Witness ==
    /\ entry = "set_status" /\ Len(log) = 3
    /\ log[1].op = "damage" /\ log[2].op = "unlink"
    /\ log[2].id = mgr.dataset_id /\ log[3].member = "OK"
    /\ statusFile = File(FormatLine(mgr.dataset_id, Status_OK))

\* ------------------------------------------------------ further claims
\* C11: a status write made for identifier X (the from-scratch reset to NONE,
\* the final OK) leaves the entry of every other identifier as it was: an
\* identifier that read OK before the write reads OK after it.
C11_OtherEntriesKept ==
    [][ (entry' = "set_status" /\ log' # log) =>
            \A other \in KVIds \ {mgr'.dataset_id} :
                get_status(statusFile, other).ret = "OK" =>
                    get_status(statusFile', other).ret = "OK"
      ]_vars

\* the call is in, or has left, the patch loop of a manager given patches
InPatchLoop ==
    /\ entry = "ctor"
    /\ mgr.patches.given
    /\ \/ pc \in {"patch", "setok"}
       \/ pc = "done" /\ InLog("status_write")
       \/ pc = "failed" /\ err \in {"patch", "notcallable"}

\* position of the first x in l, 0 when there is none
FirstIn(l, x) == Find(l, x)

\* C12: the patches run after the expansion, in list order, each with the
\* data directory as its argument; at the first patch that raises or is not
\* callable the call fails, no later patch has run and OK is not written.
C12_PatchesInOrder ==
    InPatchLoop =>
        /\ InLog("extract")
        /\ \A i \in 1..Len(log) : log[i] = "patch" => FirstIn(log, "extract") < i
        /\ Len(markers) = idx - 1
        /\ Applied(markers) = SubSeq(mgr.patches.list, 1, idx - 1)
        /\ \A k \in 1..Len(markers) : markers[k].arg = data_path
        /\ pc = "failed" =>
              /\ idx <= Len(mgr.patches.list)
              /\ Count(log, "patch") = idx - (IF err = "patch" THEN 0 ELSE 1)
              /\ ~InLog("status_write")
              /\ Persisted(mgr.dataset_id) = startStatus
              /\ startStatus # "OK"

C12_Witness ==
    /\ InPatchLoop /\ pc = "failed" /\ err = "notcallable"
    /\ idx = 2 /\ Len(mgr.patches.list) = 2 /\ Len(markers) = 1

\* the descriptor's checksum names an algorithm checksum() does not know
UnsupportedAlgorithm == verify_checksum(Archive, remote.checksum, FALSE).raised

\* C13: with a checksum that names an unsupported algorithm nothing is
\* downloaded, no file is created and no directory is deleted: the error
\* comes when the manager is configured.
C13_UnsupportedAlgorithmFirst ==
    UnsupportedAlgorithm =>
        /\ ~InLog("download") /\ ~Exists(tmp)
        /\ ~InLog("rmtree")
        /\ pc \in {"idle", "failed"}
        /\ pc = "failed" => err = "config"

\* C14: a manager whose descriptor has no checksum, or that was told to skip
\* verification, computes no digest; it takes an artifact file that is there
\* as it is, without a download; and it renames every temporary file it has
\* downloaded onto the artifact file.
C14_SkipAcceptsAnything ==
    [][ /\ (entry' = "ctor" /\ ~remote.checksum.given) => mgr'.skip_verify
        /\ (entry' = "ctor" /\ mgr'.skip_verify) =>
              (~InSeq("digest", log') /\ err' # "integrity")
        /\ (pc = "dae" /\ mgr.skip_verify /\ Exists(artifact) /\ pc' # "idle") =>
              (pc' = "extract" /\ artifact' = artifact /\ log' = log)
        /\ (pc = "verify_tmp" /\ mgr.skip_verify /\ pc' # "idle") =>
              (pc' = "extract" /\ artifact' = tmp /\ ~Exists(tmp'))
      ]_vars

C14_Witness ==
    /\ pc = "extract" /\ ~remote.checksum.given /\ ~mgr.from_scratch
    /\ log = <<"download", "rename">> /\ artifact = Junk

\* C15: a manager constructed with from_scratch=True for an identifier whose
\* status was OK downloads the artifact again and expands it again, also
\* when the artifact file is there.
C15_FromScratchRedoesAll ==
    (entry = "ctor" /\ mgr.from_scratch /\ mgr.found = "OK") =>
        /\ pc \in {"extract", "expand", "apply", "patch", "setok", "done"} =>
              InLog("download")
        /\ pc \in {"apply", "patch", "setok", "done"} => InLog("extract")

\* ------------------------------------------------- claims on the object cache
LastSave == saved[Len(saved)]

\* the string-keyed saves among the first n
StringSaves(n) == Cardinality({i \in 1..n : ~saved[i].key.isint})

\* a load() made by the instance that made the last save(), of a string key
LoadAfterStringSave ==
    /\ lastLoad.called
    /\ saved # <<>>
    /\ ~LastSave.key.isint
    /\ inst.saves >= 1

\* C16 (as the code has it): a string-keyed save of key k with record r made
\* when the index holds n entries is readable as load(n) and as load(k), each
\* returning r, and with the mirror enabled without a call of the backend's
\* load; on a cache that was only given string keys n is the number of
\* earlier saves.
C16_StringSaveReadable ==
    LoadAfterStringSave =>
        /\ (lastLoad.key = IntKey(Len(indexBefore)) \/ lastLoad.key = LastSave.key) =>
              /\ err = "none"
              /\ lastLoad.ret = LastSave.data
              /\ inst.keep_in_memory => lastLoad.backend_loads = 0
        /\ StringSaves(Len(saved)) = Len(saved) => Len(indexBefore) = Len(saved) - 1

C16_Witness ==
    /\ LoadAfterStringSave
    /\ Len(saved) = 2 /\ StringSaves(2) = 2
    /\ inst.keep_in_memory /\ inst.saves = 2
    /\ lastLoad.key = IntKey(1) /\ lastLoad.ret = LastSave.data

\* C16 as stated: the i-th string-keyed save (counting from 0) of key k with
\* record r is readable as load(i) and as load(k), each returning r, and with
\* the mirror enabled load(k) does not call the backend's load.
C16_IthStringSave ==
    LoadAfterStringSave =>
        /\ lastLoad.key = IntKey(StringSaves(Len(saved) - 1)) =>
              (err = "none" /\ lastLoad.ret = LastSave.data)
        /\ lastLoad.key = LastSave.key =>
              /\ err = "none"
              /\ lastLoad.ret = LastSave.data
              /\ inst.keep_in_memory => lastLoad.backend_loads = 0

\* C17: after save(n, r) with an integer key, load(n) returns r, on the same
\* instance and on a new instance of the same root, with or without the mirror.
C17_IntegerSaveReadable ==
    (lastLoad.called /\ saved # <<>> /\ LastSave.key.isint
        /\ lastLoad.key = LastSave.key) =>
        (err = "none" /\ lastLoad.ret = LastSave.data)

\* C18: every entry of the index of the cache names a file of the data
\* directory: data/<key><ext> exists.
C18_IndexEntriesHaveFiles ==
    inst.open =>
        \A i \in 1..Len(inst.index) :
            add_extension_if_missing(inst.index[i][2]) \in DOMAIN backing

\* C19: a save with a string key uses an ordinal the index did not hold: no
\* entry of the index is replaced and len() grows by one.
C19_StringSaveTakesFreeSlot ==
    (saved # <<>> /\ ~LastSave.key.isint /\ inst.saves >= 1) =>
        /\ ~DictHas(indexBefore, Len(indexBefore))
        /\ Len(inst.index) = Len(indexBefore) + 1
        /\ \A i \in 1..Len(indexBefore) :
              DictGet(inst.index, indexBefore[i][1], <<>>) = indexBefore[i][2]

\* two indexes with the same ordinals mapped to the same keys
SameIndex(d, e) ==
    /\ \A i \in 1..Len(d) : DictHas(e, d[i][1]) /\ DictGet(e, d[i][1], <<>>) = d[i][2]
    /\ \A i \in 1..Len(e) : DictHas(d, e[i][1])

\* C20: once a save has returned, the index file holds the index of the
\* instance: a new SimpleCache on the root gets an equal index, of equal len().
C20_IndexFileIsTheIndex ==
    (inst.open /\ inst.saves >= 1) =>
        /\ index_kv.exists
        /\ LET r == load_kv_int(index_kv.data) IN
            /\ r.ok
            /\ SameIndex(r.data, inst.index)
            /\ Len(r.data) = Len(inst.index)

\* ------------------------------------------------ claims on the files of a root
\* a step that creates the STATUS file
StatusFileCreated == ~statusFile.exists /\ statusFile'.exists

C22_DeletionSparesArtifact ==
    [][ (pc = "extract" /\ Exists(artifact) /\ pc' = "expand") =>
            /\ Exists(artifact')
            /\ artifact' = artifact
            /\ statusFile' = statusFile
      ]_vars
====
